---------------------------- MODULE Spec2Model ----------------------------
(***************************************************************************)
(* Model of the audio engine of the Audio Themes add-on:                   *)
(*   audio_engine/__init__.py    SteamAudioPlayer (the playback engine)    *)
(*   audio_engine/steam_audio.py SteamAudio (facade of the native library) *)
(*                                                                         *)
(* Time is in milliseconds, angles are in thousandths of a degree and      *)
(* volumes in hundredths, so that the float arithmetic of the source is    *)
(* integer arithmetic here.                                                *)
(***************************************************************************)
EXTENDS Integers, Sequences, FiniteSets, TLC

\* ------------------------------------------------------------- bounds
\* Worker threads spawned over a run (one per request that reaches dispatch).
MaxWorkers == 2
\* time.time() at the engine's construction, and how far the clock advances.
StartTime == 1000
MaxElapsed == 100
\* How far the clock advances where the desktop cache is let go stale.
MaxLongElapsed == 12500

\* -------------------------------------------------- program constants
\* play(): curtime - self._last_played_time < 0.1
DebounceMs == 100
\* _get_desktop_size(): time.time() - self._desktop_cache_time > 5.0
DesktopStaleMs == 5000
\* __post_init__: self._display_width, _display_height_min, _display_height_magnitude
display_width == 180
display_height_min == -40
display_height_magnitude == 50
\* SteamAudio.initialize(self, sample_rate=44100, frame_size=1024)
DefaultSampleRate == 44100
DefaultFrameSize == 1024

\* ------------------------------------------------------------ values
None == "None"
Main == 0
NoThread == -1
Workers == 1 .. MaxWorkers
Engines == {1, 2}
\* Accessibility objects the event layer passes in (identity matters to the
\* debounce), and the location each reports; None stands for no object.
Objects == {"o1"}
ObjectsOrNone == Objects \cup {None}
Sounds == {"snd"}
SoundsOrNone == Sounds \cup {None}
FallbackDesktop == <<1920, 1080>>
\* What NVDAObjects.api.getDesktopObject().location[2:4] can give: a size, a
\* degenerate size, or an exception.
DesktopReads ==
    {[raises |-> FALSE, size |-> <<1920, 1080>>],
     [raises |-> FALSE, size |-> <<0, 0>>],
     [raises |-> TRUE, size |-> <<0, 0>>]}
\* Objects for the computation of the angles: on the desktop, far off its
\* top-left corner, far off its bottom-right corner, and without a location;
\* the desktop sizes, the configured volumes and the synthesizer volumes the
\* engine is constructed over.
ParamObjects == {"o1", "offTopLeft", "offBottomRight", "noLocation"}
ParamDesktopReads ==
    {[raises |-> FALSE, size |-> <<1920, 1080>>],
     [raises |-> FALSE, size |-> <<1366, 768>>],
     [raises |-> FALSE, size |-> <<1, 1>>],
     [raises |-> TRUE, size |-> <<0, 0>>]}
ConfiguredVolumes == {-10, 50, 150}
SynthVolumes == {0, 50, 100, 120}
TickSteps == {50}
LongTickSteps == {2500}
\* config.conf.get("audiothemes", {}).get("use_reverb", True) as read by a worker.
ConfReads == {"on", "off", "raises"}
\* What the native initialize_steam_audio / set_reverb_settings can answer.
NativeBools == BOOLEAN
\* What the native process_sound / apply_reverb can answer, and how the copy of
\* its output goes: failure; success with a null buffer; success with a buffer
\* of reported length <= 0; success with a buffer that is copied; success with
\* a buffer whose copy raises.
NativeOutcomes == {"fail", "null", "len0", "ok", "copy_raises"}
\* make_sound_object(filepath): decoded, or None on any decoding error.
FileReads == {"snd", None}
Calls == {"process_sound", "apply_reverb"}
\* The arguments a direct caller of SteamAudio.initialize can pass.
InitializeArgs == {<<DefaultSampleRate, DefaultFrameSize>>, <<22050, 512>>}

VARIABLES
    now,                \* time.time()
    eng,                \* the SteamAudioPlayer instances
    wk,                 \* the worker threads (threading.Thread(target=play_async))
    sa,                 \* the SteamAudio singleton (_steam_audio_instance)
    steam_audio_mutex,  \* _steam_audio_mutex: the thread that holds it
    inNative,           \* threads executing a native entry point
    main,               \* the calling thread: where it is in a blocking call
    lastCall,           \* how the calling thread's last play/play_queued/play_file ended
    nvda,               \* the host: the add-on's configuration and the synthesizer
    plugin              \* the GlobalPlugin instance and its last speakTextInfo call

vars == <<now, eng, wk, sa, steam_audio_mutex, inNative, main, lastCall, nvda, plugin>>

\* ------------------------------------------------------ pure helpers
clampNothing(value, min_value, max_value) ==
    value

clamp(value, min_value, max_value) ==
    LET m == IF value < max_value THEN value ELSE max_value
    IN  IF m > min_value THEN m ELSE min_value

NoLocation == <<>>
ObjLocation(obj) ==
    CASE obj = "o1" -> <<100, 200, 300, 40>>
      [] obj = "offTopLeft" -> <<-4000, -4000, 100, 100>>
      [] obj = "offBottomRight" -> <<5000, 3000, 10, 10>>
      [] OTHER -> NoLocation

ComputeVolumeReclamped(e, synth) ==
    IF ~e.use_synth_volume
    THEN clamp(e.volume, 0, 100)
    ELSE clamp(clamp(synth, 0, 100) + (IF e.audio3d THEN 25 ELSE 0), 0, 100)

\* SteamAudioPlayer._compute_volume, in hundredths; synth is the synthesizer's
\* volume attribute.
ComputeVolume(e, synth) ==
    IF ~e.use_synth_volume
    THEN clamp(e.volume, 0, 100)
    ELSE LET v == clamp(synth, 0, 100)
         IN  IF e.audio3d THEN v + 25 ELSE v

\* SteamAudioPlayer._update_desktop_cache: the engine after the refresh.
UpdateDesktopCache(e, read) ==
    [e EXCEPT !.cached_desktop_size = IF read.raises THEN FallbackDesktop ELSE read.size,
              !.desktop_cache_time = now]

GetDesktopSizeNeverRefreshes(e, read) ==
    e

\* SteamAudioPlayer._get_desktop_size: the engine after the (possible) refresh;
\* its cached_desktop_size is the value returned.
GetDesktopSize(e, read) ==
    IF now - e.desktop_cache_time > DesktopStaleMs
    THEN UpdateDesktopCache(e, read)
    ELSE e

\* The desktop reads a call on engine e can make: one only when the cache is stale.
ReadsFor(e) ==
    IF now - e.desktop_cache_time > DesktopStaleMs
    THEN DesktopReads
    ELSE {[raises |-> TRUE, size |-> <<0, 0>>]}

PositionedIgnores3D(e, loc) ==
    loc # NoLocation

\* _extract_sound_params: `if self.audio3d and obj_location is not None`
Positioned(e, loc) ==
    e.audio3d /\ loc # NoLocation

\* SteamAudioPlayer._extract_sound_params on the engine e (after
\* _get_desktop_size). raised: the ZeroDivisionError of the divisions by
\* desktop_max_x / desktop_max_y.
ExtractSoundParams(e, obj, sound) ==
    LET W == e.cached_desktop_size[1]
        H == e.cached_desktop_size[2]
        loc == IF obj = None THEN NoLocation ELSE ObjLocation(obj)
        positioned == Positioned(e, loc)
        \* twice the centre, to stay in the integers
        x2 == IF positioned THEN 2 * loc[1] + loc[3] ELSE W
        y2 == IF positioned THEN 2 * loc[2] + loc[4] ELSE H
    IN  IF W = 0 \/ H = 0
        THEN [raised |-> TRUE, sound_data |-> sound, angle_x |-> 0, angle_y |-> 0,
              volume |-> e.cached_volume]
        ELSE [raised |-> FALSE,
              sound_data |-> sound,
              angle_x |-> clamp(((x2 - W) * (display_width * 1000)) \div (2 * W),
                                -90000, 90000),
              angle_y |-> clamp(((2 * H - y2) * (display_height_magnitude * 1000)) \div (2 * H)
                                  + display_height_min * 1000,
                                -90000, 90000),
              volume |-> e.cached_volume]

DebouncedAnyObject(e, obj) ==
    now - e.last_played_time < DebounceMs

DebouncedOtherObject(e, obj) ==
    now - e.last_played_time < DebounceMs /\ obj # e.last_played_object

\* play(): curtime - self._last_played_time < 0.1 and obj is self._last_played_object
Debounced(e, obj) ==
    now - e.last_played_time < DebounceMs /\ obj = e.last_played_object

SupersededNever(w) ==
    FALSE

\* generation != self._sound_generation, as a worker evaluates it
Superseded(w) ==
    wk[w].generation # eng[wk[w].engine].sound_generation

FalsyOnlyNone(res) ==
    res = "None"

\* `if not processed_audio`: None and b"" are both falsy
Falsy(res) ==
    res # "bytes"

\* --------------------------------------------------------- the state
NoWorker ==
    [engine |-> 0, policy |-> "none", generation |-> 0,
     angle_x |-> 0, angle_y |-> 0, volume |-> 0,
     call |-> "none", pc |-> "idle", result |-> "unset", processed |-> "unset",
     reverb |-> "unset", final |-> "none", conf |-> "unread", synth_then |-> 0,
     alloc |-> [c \in Calls |-> FALSE], frees |-> [c \in Calls |-> 0],
     stops |-> 0, feeds |-> 0, staleFeed |-> FALSE, fedBefore |-> {}]

\* No SteamAudioPlayer yet: the fields hold the dataclass defaults.
NoEngine ==
    [state |-> "none",
     audio3d |-> TRUE, use_synth_volume |-> TRUE, volume |-> 100, use_reverb |-> TRUE,
     last_played_object |-> None, last_played_time |-> 0,
     sound_generation |-> 0,
     cached_desktop_size |-> FallbackDesktop, desktop_cache_time |-> 0,
     cached_volume |-> 100, synth_volume |-> 100,
     wave_player_lock |-> NoThread,
     pending |-> <<>>]

\* A SteamAudioPlayer as __post_init__ leaves it, for the constructor arguments
\* given and what the desktop and the synthesizer answered.
NewEngine(audio3d, use_synth_volume, volume, use_reverb, read, synth) ==
    LET e0 == [NoEngine EXCEPT !.state = "open",
                               !.audio3d = audio3d,
                               !.use_synth_volume = use_synth_volume,
                               !.volume = volume, !.use_reverb = use_reverb]
        e1 == UpdateDesktopCache(e0, read)
    IN  [e1 EXCEPT !.cached_volume = ComputeVolume(e1, synth),
                   !.synth_volume = synth]

\* The calling thread: pc where it is, e the engine it is constructing or
\* tearing down (0: it called the facade directly), rate and frame the
\* arguments of the initialize it is in.
MainIdle == [pc |-> "idle", e |-> 0, rate |-> 0, frame |-> 0]

\* ------------------------------------------------ the global plugin
FocusWindowMs == 200
MaxPluginElapsed == 400
PauseSteps == {100}
\* The TextInfo objects handed to speech.speakTextInfo, named by what
\* info.NVDAObjectAtStart gives: nothing (None), broken (the read raises), or
\* an object.
Infos == {"nothing", "broken", "ok", "ok2", "link", "unnamed", "emptyname",
          "redundant", "orphan"}
\* The other arguments of a speakTextInfo call.
SpeakArgs == {"a1", "a2"}
\* What api.getFocusObject() gives: None, an object without a tree
\* interceptor, one in browse mode (passThrough False), one in focus mode
\* (passThrough True), or an exception.
FocusObjects == {"none", "plain", "browse", "passThrough", "raises"}
NoIdentity == <<>>

NVDAObjectAtStart(info) ==
    IF info \in {"nothing", "broken"} THEN None ELSE info

Role(o) ==
    CASE o \in {"redundant", "orphan"} -> "REDUNDANTOBJECT"
      [] o = "link" -> "LINK"
      [] OTHER -> "BUTTON"

Name(o) ==
    CASE o = "unnamed" -> None
      [] o = "emptyname" -> ""
      [] OTHER -> "OK"

Location(o) ==
    IF o = "ok2" THEN <<50, 20, 30, 40>> ELSE <<10, 20, 30, 40>>

Parent(o) ==
    IF o = "redundant" THEN "ok" ELSE None

\* current_id = (obj.role, getattr(obj, 'name', '') or '', tuple(location))
CurrentId(o) ==
    <<Role(o), IF Name(o) \in {None, ""} THEN "" ELSE Name(o), Location(o)>>

\* The object the hook would play for: the object at the start of info, or
\* the parent of a redundant one; None when there is none or the read raises.
CaretObject(info) ==
    LET o == NVDAObjectAtStart(info)
    IN  IF o # None /\ Role(o) = "REDUNDANTOBJECT" THEN Parent(o) ELSE o

IdentityAt(info) ==
    IF CaretObject(info) = None THEN NoIdentity ELSE CurrentId(CaretObject(info))

\* GlobalPlugin._is_in_browse_mode: True only for a focus object whose tree
\* interceptor is not in passThrough; False for every other answer and when
\* api.getFocusObject() raises.
IsInBrowseMode(focus) ==
    focus = "browse"

\* The original speech.speakTextInfo: what it returns for its arguments.
OriginalSpeakTextInfo(info, args) ==
    <<"spoken", info, args>>

\* One call of the hook: its arguments, whether browse mode was found, the
\* identity of the object at the caret, whether playObject was called, how
\* often and with what the original was called, and what the hook returned.
NoHookCall ==
    [called |-> FALSE, browse |-> FALSE, info |-> "nothing", args |-> "a1",
     id |-> NoIdentity, played |-> FALSE, forwards |-> 0, forwarded |-> <<>>,
     returned |-> <<>>]

\* GlobalPlugin.__init__: last_played_id keeps the identity of the last
\* playObject call of the hook since browse mode was last left.
NewPlugin ==
    [last_focus_sound_time |-> 0, last_browse_object_id |-> NoIdentity,
     last_played_id |-> NoIdentity, hook |-> NoHookCall]

AfterFocusWindowInclusive(p) ==
    now - p.last_focus_sound_time >= FocusWindowMs

\* time.time() - self._last_focus_sound_time > 0.2
AfterFocusWindow(p) ==
    now - p.last_focus_sound_time > FocusWindowMs

\* The try block of the hook: the read of the object, the identity test,
\* playObject. An exception anywhere in it is swallowed; one raised by
\* playObject leaves the identity remembered.
BrowseSound(p, info) ==
    IF info = "broken" \/ CaretObject(info) = None
    THEN p
    ELSE IF CurrentId(CaretObject(info)) # p.last_browse_object_id
    THEN [p EXCEPT !.last_browse_object_id = CurrentId(CaretObject(info)),
                   !.last_played_id = CurrentId(CaretObject(info)),
                   !.hook.played = TRUE]
    ELSE p

ForwardUnlessPlayed(p, info, args) ==
    IF p.hook.played
    THEN p
    ELSE [p EXCEPT !.hook.forwards = @ + 1,
                   !.hook.forwarded = <<info, args>>,
                   !.hook.returned = OriginalSpeakTextInfo(info, args)]

\* return self.original_speech_speakTextInfo(info, *args, **kwargs)
Forward(p, info, args) ==
    [p EXCEPT !.hook.forwards = @ + 1,
              !.hook.forwarded = <<info, args>>,
              !.hook.returned = OriginalSpeakTextInfo(info, args)]

\* The host as the add-on finds it: reverb stands for the five reverb settings
\* of config.conf["audiothemes"] (RoomSize, Damping, WetLevel, DryLevel, Width),
\* synth_volume for synthDriverHandler.getSynth().volume.
DefaultHost == [reverb |-> "A", synth_volume |-> 100]

\* What a direct call of the facade returned, and the arguments it was given.
Returned(call, rate, frame, value) ==
    [call |-> call, rate |-> rate, frame |-> frame, value |-> value]

\* The SteamAudio singleton: sample_rate and frame_size exist once initialize
\* succeeded (0 before); ret is the last return of a direct call of initialize
\* or set_reverb_settings; cleaned tells whether the native cleanup_steam_audio
\* has run; reverb is what the library's reverb is set to (by the last
\* successful native set_reverb_settings).
NewSteamAudio ==
    [initialized |-> FALSE, sample_rate |-> 0, frame_size |-> 0,
     ret |-> Returned("none", 0, 0, "none"), cleaned |-> FALSE,
     reverb |-> "library default"]

\* One engine constructed (__post_init__ done), nothing played yet.
Init ==
    /\ now = StartTime
    /\ \E read \in DesktopReads :
          eng = [e \in Engines |->
                    IF e = 1
                    THEN NewEngine(TRUE, TRUE, 100, TRUE, read, 100)
                    ELSE NoEngine]
    /\ wk = [w \in Workers |-> NoWorker]
    /\ sa = [NewSteamAudio EXCEPT !.initialized = TRUE,
                               !.sample_rate = DefaultSampleRate,
                               !.frame_size = DefaultFrameSize,
                               !.reverb = DefaultHost.reverb]
    /\ steam_audio_mutex = NoThread
    /\ inNative = {}
    /\ main = MainIdle
    /\ lastCall = "none"
    /\ nvda = DefaultHost
    /\ plugin = NewPlugin

\* One engine constructed with any of the settings, over any of the desktops
\* and synthesizer volumes.
InitParams ==
    /\ now = StartTime
    /\ \E audio3d \in BOOLEAN, use_synth_volume \in BOOLEAN,
          volume \in ConfiguredVolumes, read \in ParamDesktopReads,
          synth \in SynthVolumes :
          eng = [e \in Engines |->
                    IF e = 1
                    THEN NewEngine(audio3d, use_synth_volume, volume, TRUE, read, synth)
                    ELSE NoEngine]
    /\ wk = [w \in Workers |-> NoWorker]
    /\ sa = [NewSteamAudio EXCEPT !.initialized = TRUE,
                               !.sample_rate = DefaultSampleRate,
                               !.frame_size = DefaultFrameSize,
                               !.reverb = DefaultHost.reverb]
    /\ steam_audio_mutex = NoThread
    /\ inNative = {}
    /\ main = MainIdle
    /\ lastCall = "none"
    /\ nvda = [DefaultHost EXCEPT !.synth_volume = eng[1].synth_volume]
    /\ plugin = NewPlugin

\* One engine constructed with the reverb flag either way, over the fallback
\* desktop.
InitReverb ==
    /\ now = StartTime
    /\ \E use_reverb \in BOOLEAN :
          eng = [e \in Engines |->
                    IF e = 1
                    THEN NewEngine(TRUE, TRUE, 100, use_reverb,
                                   [raises |-> TRUE, size |-> <<0, 0>>], 100)
                    ELSE NoEngine]
    /\ wk = [w \in Workers |-> NoWorker]
    /\ sa = [NewSteamAudio EXCEPT !.initialized = TRUE,
                               !.sample_rate = DefaultSampleRate,
                               !.frame_size = DefaultFrameSize,
                               !.reverb = DefaultHost.reverb]
    /\ steam_audio_mutex = NoThread
    /\ inNative = {}
    /\ main = MainIdle
    /\ lastCall = "none"
    /\ nvda = DefaultHost
    /\ plugin = NewPlugin

\* The module as imported: no engine yet, the singleton not initialized.
InitModule ==
    /\ now = StartTime
    /\ eng = [e \in Engines |-> NoEngine]
    /\ wk = [w \in Workers |-> NoWorker]
    /\ sa = NewSteamAudio
    /\ steam_audio_mutex = NoThread
    /\ inNative = {}
    /\ main = MainIdle
    /\ lastCall = "none"
    /\ nvda = DefaultHost
    /\ plugin = NewPlugin

\* ------------------------------------------------- the calling thread
Spawned == {w \in Workers : wk[w].policy # "none"}
NextWorker == Cardinality(Spawned) + 1

SpawnLiveVolume(e, policy, generation, p) ==
    [wk EXCEPT ![NextWorker] =
        [NoWorker EXCEPT !.engine = e, !.policy = policy, !.generation = generation,
                         !.angle_x = p.angle_x, !.angle_y = p.angle_y,
                         !.volume = ComputeVolume(eng[e], nvda.synth_volume),
                         !.synth_then = nvda.synth_volume,
                         !.call = "process_sound", !.pc = "check"]]

\* threading.Thread(target=play_async, daemon=True).start(); synth_then keeps
\* what the synthesizer's volume was when the request was built.
Spawn(e, policy, generation, p) ==
    [wk EXCEPT ![NextWorker] =
        [NoWorker EXCEPT !.engine = e, !.policy = policy, !.generation = generation,
                         !.angle_x = p.angle_x, !.angle_y = p.angle_y,
                         !.volume = p.volume,
                         !.synth_then = nvda.synth_volume,
                         !.call = "process_sound", !.pc = "check"]]

Tick(step) ==
    /\ now + step - StartTime <= MaxElapsed
    /\ now' = now + step
    /\ UNCHANGED <<eng, wk, sa, steam_audio_mutex, inNative, main, lastCall, nvda, plugin>>

\* Seconds pass between two calls.
Wait(step) ==
    /\ now + step - StartTime <= MaxLongElapsed
    /\ now' = now + step
    /\ UNCHANGED <<eng, wk, sa, steam_audio_mutex, inNative, main, lastCall, nvda, plugin>>

NextGenerationStuck(e) ==
    e.sound_generation

\* self._sound_generation += 1; my_generation = self._sound_generation
NextGeneration(e) ==
    e.sound_generation + 1

\* SteamAudioPlayer.play(obj, sound)
Play(e, obj, sound) ==
    \E read \in ReadsFor(eng[e]) :
    /\ main.pc = "idle"
    /\ eng[e].state # "none"
    /\ UNCHANGED <<now, sa, steam_audio_mutex, inNative, main, nvda, plugin>>
    /\ IF sound = None
       THEN lastCall' = "returned" /\ UNCHANGED <<eng, wk>>
       ELSE IF Debounced(eng[e], obj)
       THEN lastCall' = "debounced" /\ UNCHANGED <<eng, wk>>
       ELSE LET e1 == [eng[e] EXCEPT !.last_played_object = obj,
                                     !.last_played_time = now]
                e2 == GetDesktopSize(e1, read)
                p == ExtractSoundParams(e2, obj, sound)
            IN  IF p.raised
                THEN /\ eng' = [eng EXCEPT ![e] = e2]
                     /\ lastCall' = "raised"
                     /\ UNCHANGED wk
                ELSE /\ NextWorker <= MaxWorkers
                     /\ eng' = [eng EXCEPT ![e] =
                                  [e2 EXCEPT !.sound_generation = NextGeneration(e2)]]
                     /\ wk' = Spawn(e, "play", NextGeneration(e2), p)
                     /\ lastCall' = "returned"

\* SteamAudioPlayer.play_queued(obj, sound)
PlayQueued(e, obj, sound) ==
    \E read \in ReadsFor(eng[e]) :
    /\ main.pc = "idle"
    /\ eng[e].state # "none"
    /\ UNCHANGED <<now, sa, steam_audio_mutex, inNative, main, nvda, plugin>>
    /\ IF sound = None
       THEN lastCall' = "returned" /\ UNCHANGED <<eng, wk>>
       ELSE LET e2 == GetDesktopSize(eng[e], read)
                p == ExtractSoundParams(e2, obj, sound)
            IN  IF p.raised
                THEN /\ eng' = [eng EXCEPT ![e] = e2]
                     /\ lastCall' = "raised"
                     /\ UNCHANGED wk
                ELSE /\ NextWorker <= MaxWorkers
                     /\ eng' = [eng EXCEPT ![e] = e2]
                     /\ wk' = Spawn(e, "queued", 0, p)
                     /\ lastCall' = "returned"

PlayFileNoIncrement(e, file) ==
    /\ main.pc = "idle"
    /\ eng[e].state # "none"
    /\ UNCHANGED <<now, sa, steam_audio_mutex, inNative, main, eng, nvda, plugin>>
    /\ IF file = None
       THEN lastCall' = "returned" /\ UNCHANGED wk
       ELSE /\ NextWorker <= MaxWorkers
            /\ wk' = Spawn(e, "file", eng[e].sound_generation,
                           [angle_x |-> 0, angle_y |-> 0, volume |-> 100])
            /\ lastCall' = "returned"

\* SteamAudioPlayer.play_file(filepath); file is what make_sound_object returns.
PlayFile(e, file) ==
    /\ main.pc = "idle"
    /\ eng[e].state # "none"
    /\ UNCHANGED <<now, sa, steam_audio_mutex, inNative, main, nvda, plugin>>
    /\ IF file = None
       THEN lastCall' = "returned" /\ UNCHANGED <<eng, wk>>
       ELSE /\ NextWorker <= MaxWorkers
            /\ eng' = [eng EXCEPT ![e].sound_generation = NextGeneration(eng[e])]
            /\ wk' = Spawn(e, "file", NextGeneration(eng[e]),
                           [angle_x |-> 0, angle_y |-> 0, volume |-> 100])
            /\ lastCall' = "returned"

\* ----------------------------------------------------- the two locks
AcquireMutexNoWait(t) ==
    steam_audio_mutex' = t

\* with _steam_audio_mutex: (entering and leaving the block)
AcquireMutex(t) ==
    /\ steam_audio_mutex = NoThread
    /\ steam_audio_mutex' = t

ReleaseMutexKeeps(t) ==
    steam_audio_mutex' = t

ReleaseMutex(t) ==
    steam_audio_mutex' = NoThread

\* --------------------------------- engine construction and teardown
NeverAlreadyInitialized ==
    FALSE

\* SteamAudio.initialize: `if self.initialized:` (return True without the
\* native call)
AlreadyInitialized ==
    sa.initialized

UninitializedPasses ==
    FALSE

\* set_reverb_settings / process_sound / apply_reverb: `if not self.initialized:`
Uninitialized ==
    ~sa.initialized

\* SteamAudioPlayer.__post_init__ up to the first native call: get_steam_audio()
\* and SteamAudio.initialize's `if self.initialized: return True`.
ConstructBegin(e) ==
    /\ main.pc = "idle"
    /\ eng[e].state = "none"
    /\ main' = [MainIdle EXCEPT
                  !.pc = IF AlreadyInitialized THEN "reverb_wait" ELSE "init_wait",
                  !.e = e,
                  !.rate = IF AlreadyInitialized THEN 0 ELSE DefaultSampleRate,
                  !.frame = IF AlreadyInitialized THEN 0 ELSE DefaultFrameSize]
    /\ UNCHANGED <<now, eng, wk, sa, steam_audio_mutex, inNative, lastCall, nvda, plugin>>

\* The calling thread enters `with _steam_audio_mutex:` and the native routine of
\* initialize, set_reverb_settings or cleanup.
MainNativeEnter ==
    /\ main.pc \in {"init_wait", "reverb_wait", "cleanup_wait"}
    /\ AcquireMutex(Main)
    /\ inNative' = inNative \cup {Main}
    /\ main' = [main EXCEPT !.pc = CASE main.pc = "init_wait" -> "init_in"
                                     [] main.pc = "reverb_wait" -> "reverb_in"
                                     [] main.pc = "cleanup_wait" -> "cleanup_in"]
    /\ UNCHANGED <<now, eng, wk, sa, lastCall, nvda, plugin>>

\* SteamAudio.initialize: the native initialize_steam_audio returned success;
\* on failure __post_init__ raises RuntimeError and no engine exists.
InitializeReturn(success) ==
    /\ main.pc = "init_in"
    /\ ReleaseMutex(Main)
    /\ inNative' = inNative \ {Main}
    /\ sa' = [sa EXCEPT
                !.initialized = IF success THEN TRUE ELSE @,
                !.sample_rate = IF success THEN main.rate ELSE @,
                !.frame_size = IF success THEN main.frame ELSE @,
                !.ret = IF main.e # 0
                        THEN @
                        ELSE Returned("initialize", main.rate, main.frame,
                                      IF success THEN "True" ELSE "False")]
    /\ main' = IF success /\ main.e # 0
               THEN [main EXCEPT !.pc = "reverb_wait", !.rate = 0, !.frame = 0]
               ELSE MainIdle
    /\ UNCHANGED <<now, eng, wk, lastCall, nvda, plugin>>

\* _configure_reverb: the native set_reverb_settings returned; then the rest of
\* __post_init__ (the wave player, the state, the caches).
ReverbReturn(read) ==
    /\ main.pc = "reverb_in"
    /\ main.e # 0
    /\ ReleaseMutex(Main)
    /\ inNative' = inNative \ {Main}
    /\ eng' = [eng EXCEPT ![main.e] =
                  NewEngine(TRUE, TRUE, 100, TRUE, read, nvda.synth_volume)]
    /\ sa' = [sa EXCEPT !.reverb = nvda.reverb]
    /\ main' = MainIdle
    /\ UNCHANGED <<now, wk, lastCall, nvda, plugin>>

CloseAlsoCleansUp(e) ==
    /\ main.pc = "idle"
    /\ eng[e].state = "open"
    /\ eng[e].wave_player_lock = NoThread
    /\ eng' = [eng EXCEPT ![e].state = "closed"]
    /\ main' = [MainIdle EXCEPT !.pc = "cleanup_wait", !.e = e]
    /\ UNCHANGED <<now, wk, sa, steam_audio_mutex, inNative, lastCall, nvda, plugin>>

\* SteamAudioPlayer.close(): with self._wave_player_lock: self.wave_player.close()
Close(e) ==
    /\ main.pc = "idle"
    /\ eng[e].state = "open"
    /\ eng[e].wave_player_lock = NoThread
    /\ eng' = [eng EXCEPT ![e].state = "closed"]
    /\ UNCHANGED <<now, wk, sa, steam_audio_mutex, inNative, main, lastCall, nvda, plugin>>

\* SteamAudioPlayer.close_and_cleanup_steam_audio(): close(), then
\* SteamAudio.cleanup's `if self.initialized:`.
CloseAndCleanup(e) ==
    /\ main.pc = "idle"
    /\ eng[e].state = "open"
    /\ eng[e].wave_player_lock = NoThread
    /\ eng' = [eng EXCEPT ![e].state = "closed"]
    /\ main' = IF sa.initialized
               THEN [MainIdle EXCEPT !.pc = "cleanup_wait", !.e = e]
               ELSE MainIdle
    /\ UNCHANGED <<now, wk, sa, steam_audio_mutex, inNative, lastCall, nvda, plugin>>

\* SteamAudio.cleanup: the native cleanup_steam_audio returned;
\* self.initialized = False inside the mutex.
CleanupReturn ==
    /\ main.pc = "cleanup_in"
    /\ ReleaseMutex(Main)
    /\ inNative' = inNative \ {Main}
    /\ sa' = [sa EXCEPT !.initialized = FALSE, !.cleaned = TRUE]
    /\ main' = MainIdle
    /\ UNCHANGED <<now, eng, wk, lastCall, nvda, plugin>>

\* --------------------------------------------- the host's settings
ReverbSettings == {"A", "B"}

\* The settings panel saves other reverb settings (RoomSize, Damping, WetLevel,
\* DryLevel, Width of config.conf["audiothemes"]) while nothing is playing.
SaveReverbSettings(r) ==
    /\ main.pc = "idle"
    /\ \A w \in Spawned : wk[w].pc = "done"
    /\ r # nvda.reverb
    /\ nvda' = [nvda EXCEPT !.reverb = r]
    /\ UNCHANGED <<now, eng, wk, sa, steam_audio_mutex, inNative, main, lastCall, plugin>>

\* The user changes the synthesizer's volume (synthDriverHandler.getSynth().volume).
SetSynthVolume(v) ==
    /\ v # nvda.synth_volume
    /\ nvda' = [nvda EXCEPT !.synth_volume = v]
    /\ UNCHANGED <<now, eng, wk, sa, steam_audio_mutex, inNative, main, lastCall, plugin>>

\* The owner of the engine gives it other volume settings (the dataclass
\* fields use_synth_volume and volume).
SetVolumeSettings(e, use_synth_volume, volume) ==
    /\ main.pc = "idle"
    /\ eng[e].state = "open"
    /\ <<use_synth_volume, volume>> # <<eng[e].use_synth_volume, eng[e].volume>>
    /\ eng' = [eng EXCEPT ![e].use_synth_volume = use_synth_volume,
                          ![e].volume = volume]
    /\ UNCHANGED <<now, wk, sa, steam_audio_mutex, inNative, main, lastCall, nvda, plugin>>

\* SteamAudioPlayer._update_volume_cache
UpdateVolumeCache(e) ==
    /\ main.pc = "idle"
    /\ eng[e].state = "open"
    /\ eng' = [eng EXCEPT ![e].cached_volume = ComputeVolume(eng[e], nvda.synth_volume),
                          ![e].synth_volume = nvda.synth_volume]
    /\ UNCHANGED <<now, wk, sa, steam_audio_mutex, inNative, main, lastCall, nvda, plugin>>

\* ------------------------------------------- the plugin's callbacks
\* Time passes between two callbacks of the plugin.
Pause(step) ==
    /\ now + step - StartTime <= MaxPluginElapsed
    /\ now' = now + step
    /\ UNCHANGED <<eng, wk, sa, steam_audio_mutex, inNative, main, lastCall, nvda, plugin>>

\* GlobalPlugin.event_gainFocus
EventGainFocus ==
    /\ plugin' = [plugin EXCEPT !.last_focus_sound_time = now]
    /\ UNCHANGED <<now, eng, wk, sa, steam_audio_mutex, inNative, main, lastCall, nvda>>

\* GlobalPlugin.audio_themes_speech_speakTextInfo(info, *args), with focus
\* what api.getFocusObject() gives during the call.
SpeakTextInfo(info, args, focus) ==
    /\ LET p0 == [plugin EXCEPT !.hook =
                      [NoHookCall EXCEPT !.called = TRUE,
                                         !.browse = IsInBrowseMode(focus),
                                         !.info = info, !.args = args,
                                         !.id = IdentityAt(info)]]
           p1 == IF IsInBrowseMode(focus)
                 THEN IF AfterFocusWindow(p0) THEN BrowseSound(p0, info) ELSE p0
                 ELSE [p0 EXCEPT !.last_browse_object_id = NoIdentity,
                                 !.last_played_id = NoIdentity]
       IN  plugin' = Forward(p1, info, args)
    /\ UNCHANGED <<now, eng, wk, sa, steam_audio_mutex, inNative, main, lastCall, nvda>>

\* ------------------------------------- direct calls of the facade
\* SteamAudio.initialize(sample_rate, frame_size) called on the singleton
\* (initialize_steam_audio of the module does so).
Initialize(rate, frame) ==
    /\ main.pc = "idle"
    /\ IF AlreadyInitialized
       THEN /\ sa' = [sa EXCEPT !.ret = Returned("initialize", rate, frame, "True")]
            /\ UNCHANGED main
       ELSE /\ main' = [MainIdle EXCEPT !.pc = "init_wait",
                                        !.rate = rate, !.frame = frame]
            /\ UNCHANGED sa
    /\ UNCHANGED <<now, eng, wk, steam_audio_mutex, inNative, lastCall, nvda, plugin>>

\* SteamAudio.set_reverb_settings(...) called on the singleton.
SetReverbSettings ==
    /\ main.pc = "idle"
    /\ IF Uninitialized
       THEN /\ sa' = [sa EXCEPT !.ret = Returned("set_reverb_settings", 0, 0, "False")]
            /\ UNCHANGED main
       ELSE /\ main' = [MainIdle EXCEPT !.pc = "reverb_wait"]
            /\ UNCHANGED sa
    /\ UNCHANGED <<now, eng, wk, steam_audio_mutex, inNative, lastCall, nvda, plugin>>

\* set_reverb_settings: the native set_reverb_settings returned success.
SetReverbReturn(success) ==
    /\ main.pc = "reverb_in"
    /\ main.e = 0
    /\ ReleaseMutex(Main)
    /\ inNative' = inNative \ {Main}
    /\ sa' = [sa EXCEPT !.ret = Returned("set_reverb_settings", 0, 0,
                                         IF success THEN "True" ELSE "False"),
                        !.reverb = IF success THEN nvda.reverb ELSE @]
    /\ main' = MainIdle
    /\ UNCHANGED <<now, eng, wk, lastCall, nvda, plugin>>

\* SteamAudio.cleanup() called on the singleton (cleanup_steam_audio of the
\* module does so): `if self.initialized:`.
Cleanup ==
    /\ main.pc = "idle"
    /\ sa.initialized
    /\ main' = [MainIdle EXCEPT !.pc = "cleanup_wait"]
    /\ UNCHANGED <<now, eng, wk, sa, steam_audio_mutex, inNative, lastCall, nvda, plugin>>

\* ------------------------------ cleanup from a thread of its own
\* A thread other than the calling thread calls SteamAudio.cleanup(): through
\* cleanup_steam_audio() of the module, through close_and_cleanup_steam_audio
\* of an engine it owns, or as the finalizer running SteamAudio.__del__.
SpawnCleanup ==
    /\ NextWorker <= MaxWorkers
    /\ wk' = [wk EXCEPT ![NextWorker] =
                [NoWorker EXCEPT !.policy = "cleanup", !.pc = "cleanup_check"]]
    /\ UNCHANGED <<now, eng, sa, steam_audio_mutex, inNative, main, lastCall, nvda, plugin>>

\* SteamAudio.cleanup: `if self.initialized:`
CleanupCheck(w) ==
    /\ wk[w].pc = "cleanup_check"
    /\ wk' = [wk EXCEPT ![w].pc = IF sa.initialized THEN "cleanup_wait" ELSE "done"]
    /\ UNCHANGED <<now, eng, sa, steam_audio_mutex, inNative, main, lastCall, nvda, plugin>>

\* SteamAudio.cleanup: `with _steam_audio_mutex:` and self.dll.cleanup_steam_audio()
CleanupEnter(w) ==
    /\ wk[w].pc = "cleanup_wait"
    /\ AcquireMutex(w)
    /\ inNative' = inNative \cup {w}
    /\ wk' = [wk EXCEPT ![w].pc = "cleanup_in"]
    /\ UNCHANGED <<now, eng, sa, main, lastCall, nvda, plugin>>

\* SteamAudio.cleanup: the native cleanup returned; self.initialized = False
CleanupExit(w) ==
    /\ wk[w].pc = "cleanup_in"
    /\ ReleaseMutex(w)
    /\ inNative' = inNative \ {w}
    /\ sa' = [sa EXCEPT !.initialized = FALSE, !.cleaned = TRUE]
    /\ wk' = [wk EXCEPT ![w].pc = "done"]
    /\ UNCHANGED <<now, eng, main, lastCall, nvda, plugin>>

\* The threads inside the native cleanup_steam_audio.
InNativeCleanup ==
    {w \in Workers : wk[w].pc = "cleanup_in"}
    \cup (IF main.pc = "cleanup_in" THEN {Main} ELSE {})

\* ------------------------------------------------ the worker threads
Fed == {v \in Workers : wk[v].feeds > 0}

ToSinkAlwaysChecked(rec, final) ==
    [rec EXCEPT !.call = "none", !.result = "unset", !.final = final,
                !.fedBefore = Fed, !.pc = "gen_check"]

\* Where a worker goes once its audio is final: play and play_file compare the
\* generation first, play_queued goes for the sink lock.
ToSink(rec, final) ==
    [rec EXCEPT !.call = "none", !.result = "unset", !.final = final,
                !.fedBefore = Fed,
                !.pc = IF rec.policy = "queued" THEN "lock" ELSE "gen_check"]

\* The worker after steam_audio.process_sound returned res: `if not
\* processed_audio: return`, then the reverb decision (use_reverb is the
\* engine's flag, c what the configuration read gives).
AfterProcessSound(rec, res, c, use_reverb) ==
    LET r1 == [rec EXCEPT !.processed = res, !.result = "unset"]
    IN  IF Falsy(res)
        THEN [r1 EXCEPT !.call = "none", !.pc = "done"]
        ELSE IF rec.policy = "file"
        THEN ToSink(r1, "dry")
        ELSE IF ~use_reverb
        THEN ToSink(r1, "dry")
        ELSE IF c = "on"
        THEN [r1 EXCEPT !.call = "apply_reverb", !.pc = "check", !.conf = c]
        ELSE ToSink([r1 EXCEPT !.conf = c], "dry")

AfterApplyReverbDrops(rec, res) ==
    IF Falsy(res)
    THEN [rec EXCEPT !.reverb = res, !.call = "none", !.result = "unset", !.pc = "done"]
    ELSE ToSink([rec EXCEPT !.reverb = res], "wet")

\* The worker after steam_audio.apply_reverb returned res: `if reverb_audio:
\* final_audio = reverb_audio`.
AfterApplyReverb(rec, res) ==
    ToSink([rec EXCEPT !.reverb = res], IF Falsy(res) THEN "dry" ELSE "wet")

\* The configuration reads the worker makes when the facade returns res: one
\* only where `if self.use_reverb:` is reached and true.
ConfReadsFor(w, res, confs) ==
    IF /\ wk[w].call = "process_sound"
       /\ ~Falsy(res)
       /\ wk[w].policy # "file"
       /\ eng[wk[w].engine].use_reverb
    THEN confs
    ELSE {"off"}

AfterFacade(w, res, c) ==
    IF wk[w].call = "process_sound"
    THEN AfterProcessSound(wk[w], res, c, eng[wk[w].engine].use_reverb)
    ELSE AfterApplyReverb(wk[w], res)

\* SteamAudio.process_sound / apply_reverb: `if not self.initialized: return None`
FacadeCheck(w) ==
    /\ wk[w].pc = "check"
    /\ wk' = [wk EXCEPT ![w] = IF Uninitialized
                                THEN AfterFacade(w, "None", "off")
                                ELSE [@ EXCEPT !.pc = "wait"]]
    /\ UNCHANGED <<now, eng, sa, steam_audio_mutex, inNative, main, lastCall, nvda, plugin>>

\* `with _steam_audio_mutex:` and the call of self.dll.process_sound /
\* self.dll.apply_reverb
NativeEnter(w) ==
    /\ wk[w].pc = "wait"
    /\ AcquireMutex(w)
    /\ inNative' = inNative \cup {w}
    /\ wk' = [wk EXCEPT ![w].pc = "in"]
    /\ UNCHANGED <<now, eng, sa, main, lastCall, nvda, plugin>>

\* The native call returns (out), the mutex is released, and the facade
\* looks at success, the buffer pointer and the reported length, and copies.
NativeReturn(w, out) ==
    /\ wk[w].pc = "in"
    /\ ReleaseMutex(w)
    /\ inNative' = inNative \ {w}
    /\ wk' = [wk EXCEPT ![w] =
                CASE out \in {"fail", "null"} -> AfterFacade(w, "None", "off")
                  [] out = "len0" ->
                        [AfterFacade(w, "empty", "off") EXCEPT !.alloc[wk[w].call] = TRUE]
                  [] out = "ok" ->
                        [@ EXCEPT !.alloc[wk[w].call] = TRUE, !.result = "bytes",
                                  !.pc = "free_wait"]
                  [] out = "copy_raises" ->
                        [@ EXCEPT !.alloc[wk[w].call] = TRUE, !.result = "None",
                                  !.pc = "free_wait"]]
    /\ UNCHANGED <<now, eng, sa, main, lastCall, nvda, plugin>>

\* `with _steam_audio_mutex: self.dll.free_output_sound(output_buffer_ptr)`
FreeEnter(w) ==
    /\ wk[w].pc = "free_wait"
    /\ AcquireMutex(w)
    /\ inNative' = inNative \cup {w}
    /\ wk' = [wk EXCEPT ![w].pc = "free_in"]
    /\ UNCHANGED <<now, eng, sa, main, lastCall, nvda, plugin>>

\* free_output_sound returned; the facade returns its result to the worker.
FreeReturn(w, confs) ==
    \E c \in ConfReadsFor(w, wk[w].result, confs) :
    /\ wk[w].pc = "free_in"
    /\ ReleaseMutex(w)
    /\ inNative' = inNative \ {w}
    /\ wk' = [wk EXCEPT ![w] =
                [AfterFacade(w, wk[w].result, c) EXCEPT !.frees[wk[w].call] = @ + 1]]
    /\ UNCHANGED <<now, eng, sa, main, lastCall, nvda, plugin>>

\* apply_reverb raises before its native call (the conversion of the input);
\* the worker's `except Exception: pass` leaves final_audio as it was.
ApplyReverbRaises(w) ==
    /\ wk[w].pc = "check"
    /\ wk[w].call = "apply_reverb"
    /\ wk' = [wk EXCEPT ![w] = ToSink([@ EXCEPT !.reverb = "raised"], "dry")]
    /\ UNCHANGED <<now, eng, sa, steam_audio_mutex, inNative, main, lastCall, nvda, plugin>>

\* `if generation != self._sound_generation: return` before the sink
GenCheck(w) ==
    /\ wk[w].pc = "gen_check"
    /\ wk' = [wk EXCEPT ![w].pc = IF Superseded(w) THEN "done" ELSE "stop"]
    /\ UNCHANGED <<now, eng, sa, steam_audio_mutex, inNative, main, lastCall, nvda, plugin>>

\* self.wave_player.stop()
Stop(w) ==
    /\ wk[w].pc = "stop"
    /\ eng' = [eng EXCEPT ![wk[w].engine].pending = <<>>]
    /\ wk' = [wk EXCEPT ![w].pc = "lock", ![w].stops = @ + 1]
    /\ UNCHANGED <<now, sa, steam_audio_mutex, inNative, main, lastCall, nvda, plugin>>

\* with self._wave_player_lock:
LockSink(w) ==
    /\ wk[w].pc = "lock"
    /\ eng[wk[w].engine].wave_player_lock = NoThread
    /\ eng' = [eng EXCEPT ![wk[w].engine].wave_player_lock = w]
    /\ wk' = [wk EXCEPT ![w].pc = IF wk[w].policy = "queued" THEN "feed" ELSE "recheck"]
    /\ UNCHANGED <<now, sa, steam_audio_mutex, inNative, main, lastCall, nvda, plugin>>

RecheckKeepsLock(w) ==
    /\ wk[w].pc = "recheck"
    /\ wk' = [wk EXCEPT ![w].pc = IF Superseded(w) THEN "done" ELSE "feed"]
    /\ UNCHANGED <<now, eng, sa, steam_audio_mutex, inNative, main, lastCall, nvda, plugin>>

\* `if generation != self._sound_generation: return` inside the lock
Recheck(w) ==
    /\ wk[w].pc = "recheck"
    /\ IF Superseded(w)
       THEN /\ eng' = [eng EXCEPT ![wk[w].engine].wave_player_lock = NoThread]
            /\ wk' = [wk EXCEPT ![w].pc = "done"]
       ELSE /\ wk' = [wk EXCEPT ![w].pc = "feed"]
            /\ UNCHANGED eng
    /\ UNCHANGED <<now, sa, steam_audio_mutex, inNative, main, lastCall, nvda, plugin>>

\* self.wave_player.feed(final_audio), and the lock is released
Feed(w) ==
    /\ wk[w].pc = "feed"
    /\ eng' = [eng EXCEPT ![wk[w].engine].pending =
                              Append(@, [src |-> w, audio |-> wk[w].final]),
                          ![wk[w].engine].wave_player_lock = NoThread]
    /\ wk' = [wk EXCEPT ![w].pc = "done", ![w].feeds = @ + 1,
                        ![w].staleFeed = Superseded(w)]
    /\ UNCHANGED <<now, sa, steam_audio_mutex, inNative, main, lastCall, nvda, plugin>>

\* ------------------------------------- exceptions in a worker
\* The native process_sound / apply_reverb raises inside `with
\* _steam_audio_mutex:`: the mutex is released on the way out. From
\* process_sound the exception reaches play_async's `except Exception`, and
\* the worker ends; from apply_reverb it is caught by the reverb block's
\* `except Exception: pass` and the worker goes on with the dry audio.
NativeRaises(w) ==
    /\ wk[w].pc = "in"
    /\ ReleaseMutex(w)
    /\ inNative' = inNative \ {w}
    /\ wk' = [wk EXCEPT ![w] =
                IF wk[w].call = "process_sound"
                THEN [@ EXCEPT !.call = "none", !.result = "raised", !.pc = "done"]
                ELSE ToSink([@ EXCEPT !.reverb = "raised"], "dry")]
    /\ UNCHANGED <<now, eng, sa, main, lastCall, nvda, plugin>>

\* self.wave_player.stop() raises: play_async's `except Exception` ends the worker.
StopRaises(w) ==
    /\ wk[w].pc = "stop"
    /\ wk' = [wk EXCEPT ![w].result = "raised", ![w].pc = "done"]
    /\ UNCHANGED <<now, eng, sa, steam_audio_mutex, inNative, main, lastCall, nvda, plugin>>

\* self.wave_player.feed(final_audio) raises inside `with
\* self._wave_player_lock:`: the lock is released on the way out.
FeedRaises(w) ==
    /\ wk[w].pc = "feed"
    /\ eng' = [eng EXCEPT ![wk[w].engine].wave_player_lock = NoThread]
    /\ wk' = [wk EXCEPT ![w].result = "raised", ![w].pc = "done"]
    /\ UNCHANGED <<now, sa, steam_audio_mutex, inNative, main, lastCall, nvda, plugin>>

\* ------------------------- the sink and the library, call by call
\* The device-facing calls of the sink take time: a thread is inside
\* wave_player.stop, wave_player.feed or wave_player.close between the Begin
\* and the End of the call. A call that never returns leaves its thread where
\* it is, with what it holds.

\* self.wave_player.stop() is entered
StopBegin(w) ==
    /\ wk[w].pc = "stop"
    /\ wk' = [wk EXCEPT ![w].pc = "stopping"]
    /\ UNCHANGED <<now, eng, sa, steam_audio_mutex, inNative, main, lastCall, nvda, plugin>>

\* self.wave_player.stop() returns
StopEnd(w) ==
    /\ wk[w].pc = "stopping"
    /\ eng' = [eng EXCEPT ![wk[w].engine].pending = <<>>]
    /\ wk' = [wk EXCEPT ![w].pc = "lock", ![w].stops = @ + 1]
    /\ UNCHANGED <<now, sa, steam_audio_mutex, inNative, main, lastCall, nvda, plugin>>

\* self.wave_player.feed(final_audio) is entered, the sink lock held
FeedBegin(w) ==
    /\ wk[w].pc = "feed"
    /\ wk' = [wk EXCEPT ![w].pc = "feeding"]
    /\ UNCHANGED <<now, eng, sa, steam_audio_mutex, inNative, main, lastCall, nvda, plugin>>

\* self.wave_player.feed(final_audio) returns, and the lock is released
FeedEnd(w) ==
    /\ wk[w].pc = "feeding"
    /\ eng' = [eng EXCEPT ![wk[w].engine].pending =
                              Append(@, [src |-> w, audio |-> wk[w].final]),
                          ![wk[w].engine].wave_player_lock = NoThread]
    /\ wk' = [wk EXCEPT ![w].pc = "done", ![w].feeds = @ + 1,
                        ![w].staleFeed = Superseded(w)]
    /\ UNCHANGED <<now, sa, steam_audio_mutex, inNative, main, lastCall, nvda, plugin>>

\* close(): `with self._wave_player_lock:` and self.wave_player.close() is entered
CloseBegin(e) ==
    /\ main.pc = "idle"
    /\ eng[e].state = "open"
    /\ eng[e].wave_player_lock = NoThread
    /\ eng' = [eng EXCEPT ![e].wave_player_lock = Main]
    /\ main' = [MainIdle EXCEPT !.pc = "closing", !.e = e]
    /\ UNCHANGED <<now, wk, sa, steam_audio_mutex, inNative, lastCall, nvda, plugin>>

\* self.wave_player.close() returns, and the lock is released
CloseEnd ==
    /\ main.pc = "closing"
    /\ eng' = [eng EXCEPT ![main.e].state = "closed",
                          ![main.e].wave_player_lock = NoThread]
    /\ main' = MainIdle
    /\ UNCHANGED <<now, wk, sa, steam_audio_mutex, inNative, lastCall, nvda, plugin>>

\* The native process_sound / apply_reverb never returns: the thread stays in
\* the library, inside `with _steam_audio_mutex:`.
NativeHang(w) ==
    /\ wk[w].pc = "in"
    /\ wk' = [wk EXCEPT ![w].pc = "hung"]
    /\ UNCHANGED <<now, eng, sa, steam_audio_mutex, inNative, main, lastCall, nvda, plugin>>

\* wave_player.stop() or wave_player.feed() never returns: the thread stays in
\* the call, a feeding one inside `with self._wave_player_lock:`.
DeviceHang(w) ==
    /\ wk[w].pc \in {"stopping", "feeding"}
    /\ wk' = [wk EXCEPT ![w].pc = IF wk[w].pc = "feeding" THEN "feed_hung"
                                                          ELSE "stop_hung"]
    /\ UNCHANGED <<now, eng, sa, steam_audio_mutex, inNative, main, lastCall, nvda, plugin>>

\* The threads inside a device-facing call of the sink of engine e.
InDevice(e) ==
    {w \in Workers : /\ wk[w].engine = e
                     /\ wk[w].pc \in {"stopping", "feeding", "stop_hung", "feed_hung"}}
    \cup (IF main.pc = "closing" /\ main.e = e THEN {Main} ELSE {})

\* The threads inside a call that never returns.
Hung == {w \in Workers : wk[w].pc \in {"hung", "stop_hung", "feed_hung"}}

\* Worker w is at a `with` statement whose lock thread h holds.
WaitsFor(w, h) ==
    \/ wk[w].pc \in {"wait", "free_wait"} /\ steam_audio_mutex = h
    \/ wk[w].pc = "lock" /\ eng[wk[w].engine].wave_player_lock = h

\* ---------------------------------------------------- specifications
\* A step of worker w, the native library answering from outs and the
\* configuration from confs.
WorkerStep(w, outs, confs) ==
    \/ FacadeCheck(w)
    \/ NativeEnter(w)
    \/ \E out \in outs : NativeReturn(w, out)
    \/ FreeEnter(w)
    \/ FreeReturn(w, confs)
    \/ GenCheck(w)
    \/ Stop(w)
    \/ LockSink(w)
    \/ Recheck(w)
    \/ Feed(w)

\* The engine calls of the calling thread on the engines E, for the objects objs.
EngineCall(E, objs) ==
    \/ \E e \in E, obj \in objs, sound \in SoundsOrNone : Play(e, obj, sound)
    \/ \E e \in E, obj \in objs, sound \in SoundsOrNone : PlayQueued(e, obj, sound)
    \/ \E e \in E, file \in FileReads : PlayFile(e, file)

\* One engine, its calling thread and its workers; the calls arrive within one
\* reading of the clock.
Next ==
    \/ EngineCall({1}, ObjectsOrNone)
    \/ \E w \in Workers : WorkerStep(w, NativeOutcomes, ConfReads)

Spec == Init /\ [][Next]_vars

\* The calling thread alone, with the clock advancing between its calls; the
\* workers it spawns are not scheduled.
NextCalls ==
    \/ \E step \in TickSteps : Tick(step)
    \/ EngineCall({1}, ObjectsOrNone)

SpecCalls == Init /\ [][NextCalls]_vars

\* The calling thread alone, seconds apart: the desktop cache goes stale.
NextClock ==
    \/ \E step \in LongTickSteps : Wait(step)
    \/ EngineCall({1}, ObjectsOrNone)

SpecClock == Init /\ [][NextClock]_vars

\* One engine and its workers, the reverb flag either way, the reverb
\* settings saved anew between playbacks.
NextReverb ==
    \/ \E obj \in {None}, sound \in Sounds : Play(1, obj, sound)
    \/ \E obj \in {None}, sound \in Sounds : PlayQueued(1, obj, sound)
    \/ \E file \in {"snd"} : PlayFile(1, file)
    \/ \E r \in ReverbSettings : SaveReverbSettings(r)
    \/ \E w \in Workers : WorkerStep(w, NativeOutcomes, ConfReads)
    \/ \E w \in Workers : ApplyReverbRaises(w)

SpecReverb == InitReverb /\ [][NextReverb]_vars

\* The calling thread alone, while the synthesizer's volume and the engine's
\* volume settings change and the volume cache is refreshed now and then.
NextVolume ==
    \/ \E v \in {50, 100} : SetSynthVolume(v)
    \/ \E u \in BOOLEAN, v \in {50, 100} : SetVolumeSettings(1, u, v)
    \/ UpdateVolumeCache(1)
    \/ EngineCall({1}, {None})

SpecVolume == Init /\ [][NextVolume]_vars

\* One engine and its workers, every native and device call returning or
\* raising; a worker that can take a step is scheduled in the end.
FairWorkerStep(w) ==
    \/ WorkerStep(w, NativeOutcomes, ConfReads)
    \/ ApplyReverbRaises(w)
    \/ NativeRaises(w)
    \/ StopRaises(w)
    \/ FeedRaises(w)

NextFair ==
    \/ EngineCall({1}, {None})
    \/ \E w \in Workers : FairWorkerStep(w)

SpecFair ==
    /\ InitReverb
    /\ [][NextFair]_vars
    /\ \A w \in Workers : WF_vars(FairWorkerStep(w))

\* The plugin's speakTextInfo hook and its gainFocus event, tenths of a
\* second apart.
NextPlugin ==
    \/ \E step \in PauseSteps : Pause(step)
    \/ EventGainFocus
    \/ \E info \in Infos, args \in SpeakArgs, focus \in FocusObjects :
          SpeakTextInfo(info, args, focus)

SpecPlugin == InitModule /\ [][NextPlugin]_vars

\* The requests the calling thread builds, for every setting of the engine;
\* the workers are not scheduled.
NextParams ==
    EngineCall({1}, ParamObjects \cup {None})

SpecParams == InitParams /\ [][NextParams]_vars

\* The life of the engines of one process around the shared singleton:
\* construction, playback, teardown. The native library succeeds.
Lifecycle ==
    \/ \E e \in Engines : ConstructBegin(e)
    \/ MainNativeEnter
    \/ \E success \in NativeBools : InitializeReturn(success)
    \/ \E read \in {[raises |-> TRUE, size |-> <<0, 0>>]} : ReverbReturn(read)
    \/ \E e \in Engines : Close(e)
    \/ \E e \in Engines : CloseAndCleanup(e)
    \/ CleanupReturn

NextLife ==
    \/ Lifecycle
    \/ EngineCall(Engines, {None})
    \/ \E w \in Workers : WorkerStep(w, {"ok"}, {"on"})

SpecLife == InitModule /\ [][NextLife]_vars

\* One engine with the calls of its sink and of the library taking time, any
\* of them possibly never returning; the library succeeds when it returns.
SinkWorkerStep(w) ==
    \/ FacadeCheck(w)
    \/ NativeEnter(w)
    \/ NativeReturn(w, "ok")
    \/ NativeHang(w)
    \/ FreeEnter(w)
    \/ FreeReturn(w, {"off"})
    \/ GenCheck(w)
    \/ StopBegin(w)
    \/ StopEnd(w)
    \/ LockSink(w)
    \/ Recheck(w)
    \/ FeedBegin(w)
    \/ FeedEnd(w)
    \/ DeviceHang(w)

NextSink ==
    \/ EngineCall({1}, {None})
    \/ CloseBegin(1)
    \/ CloseEnd
    \/ \E w \in Workers : SinkWorkerStep(w)

SpecSink == Init /\ [][NextSink]_vars

\* The engines constructed and torn down by the calling thread while other
\* threads call cleanup.
NextTeardown ==
    \/ Lifecycle
    \/ SpawnCleanup
    \/ \E w \in Workers : CleanupCheck(w)
    \/ \E w \in Workers : CleanupEnter(w)
    \/ \E w \in Workers : CleanupExit(w)

SpecTeardown == InitModule /\ [][NextTeardown]_vars

\* The facade called directly by the calling thread, next to one engine and
\* its workers; a native initialize or set_reverb_settings can fail.
FacadeCall ==
    \/ \E a \in InitializeArgs : Initialize(a[1], a[2])
    \/ SetReverbSettings
    \/ \E success \in NativeBools : SetReverbReturn(success)
    \/ Cleanup

NextFacade ==
    \/ FacadeCall
    \/ ConstructBegin(1)
    \/ MainNativeEnter
    \/ \E success \in NativeBools : InitializeReturn(success)
    \/ \E read \in {[raises |-> TRUE, size |-> <<0, 0>>]} : ReverbReturn(read)
    \/ CleanupReturn
    \/ EngineCall({1}, {None})
    \/ \E w \in Workers : WorkerStep(w, {"ok"}, {"on"})

SpecFacade == InitModule /\ [][NextFacade]_vars

\* ------------------------------------------------------------ claims
Interrupt(w) == wk[w].policy \in {"play", "file"}
Queued(w) == wk[w].policy = "queued"
AllDone == \A w \in Spawned : wk[w].pc = "done"

\* C1: an interrupt-policy worker (play or play_file) that captured generation g
\* never executes wave_player.feed at a moment when the engine's
\* _sound_generation differs from g. (staleFeed records, at the feed, whether it
\* differed.)
C1_NoFeedWhenSuperseded ==
    \A w \in Workers : Interrupt(w) => ~wk[w].staleFeed

\* C2: for two interrupt-policy requests of one engine with generations g1 < g2,
\* if the worker of g1 finishes its processing only after the worker of g2 has
\* executed its feed, the worker of g1 never calls feed; when they are the only
\* two requests the sink has received exactly one feed, that of g2.
C2_LateOlderRequestNeverFeeds ==
    \A w1, w2 \in Workers :
        ( /\ Interrupt(w1) /\ Interrupt(w2)
          /\ wk[w1].engine = wk[w2].engine
          /\ wk[w1].generation < wk[w2].generation
          /\ w2 \in wk[w1].fedBefore )
        => /\ wk[w1].feeds = 0
           /\ wk[w1].pc # "feed"
           /\ (Spawned = {w1, w2} =>
                 /\ wk[w2].feeds = 1
                 /\ \A i \in DOMAIN eng[wk[w2].engine].pending :
                       eng[wk[w2].engine].pending[i].src = w2)

C2_Witness ==
    \E w1, w2 \in Workers :
        /\ Interrupt(w1) /\ Interrupt(w2)
        /\ wk[w1].generation < wk[w2].generation
        /\ w2 \in wk[w1].fedBefore
        /\ wk[w1].pc = "done" /\ wk[w2].pc = "done"
        /\ Spawned = {w1, w2}

\* The request dispatched last (worker ids follow dispatch order).
Latest == CHOOSE w \in Spawned : \A v \in Spawned : v <= w

\* C3: after any sequence of play / play_file calls whose workers have all
\* finished, the latest request's processing having succeeded, the audio pending
\* in the sink is exactly the latest request's audio.
C3_LatestRequestIsPending ==
    ( /\ Spawned # {}
      /\ AllDone
      /\ \A w \in Spawned : Interrupt(w)
      /\ wk[Latest].processed = "bytes" )
    => eng[1].pending = << [src |-> Latest, audio |-> wk[Latest].final] >>

\* C4: play_queued calls dispatched in order have their payloads fed in dispatch
\* order, for every scheduling of their workers (with nothing but play_queued
\* calls the sink is never stopped, so pending is the sequence of the feeds).
C4_QueuedFeedsInDispatchOrder ==
    (\A w \in Spawned : Queued(w))
    => \A i, j \in DOMAIN eng[1].pending :
          i < j => eng[1].pending[i].src < eng[1].pending[j].src

\* C5: a play_queued call with a non-null sound is never debounced and changes
\* neither the generation counter nor the debounce state; its worker never calls
\* stop(), and if its spatialization succeeds it calls feed exactly once, holding
\* the sink lock, whatever the generation counter has become.
C5_QueuedWorker ==
    \A w \in Workers :
        Queued(w) =>
            /\ wk[w].stops = 0
            /\ wk[w].pc \notin {"gen_check", "stop", "recheck"}
            /\ wk[w].feeds <= 1
            /\ (wk[w].pc = "feed" => eng[wk[w].engine].wave_player_lock = w)
            /\ (wk[w].pc = "done" /\ wk[w].processed = "bytes" => wk[w].feeds = 1)

C5_QueuedCall ==
    \A obj \in ObjectsOrNone, sound \in Sounds :
        PlayQueued(1, obj, sound) =>
            /\ lastCall' # "debounced"
            /\ eng'[1].sound_generation = eng[1].sound_generation
            /\ eng'[1].last_played_object = eng[1].last_played_object
            /\ eng'[1].last_played_time = eng[1].last_played_time
            /\ (lastCall' = "returned" => Cardinality(Spawned') = Cardinality(Spawned) + 1)

C5_PlayQueuedNeverInterrupts ==
    [](C5_QueuedWorker) /\ [][C5_QueuedCall]_vars

C5_Witness ==
    \E w, v \in Workers :
        /\ Queued(w) /\ Interrupt(v) /\ w < v
        /\ wk[w].pc = "done" /\ wk[w].feeds = 1
        /\ eng[1].sound_generation > 0
        /\ eng[1].last_played_object = "o1"

\* C6: two play calls with a non-null sound on the same object, the second less
\* than 100 ms after the first: the second spawns no worker and changes nothing
\* (it performs no spatialize, stop or feed); a play that is not debounced and
\* whose parameters are extracted starts the pipeline exactly once.
C6_PlayStep ==
    \A obj \in ObjectsOrNone, sound \in Sounds :
        Play(1, obj, sound) =>
            IF obj = eng[1].last_played_object
               /\ now - eng[1].last_played_time < DebounceMs
            THEN wk' = wk /\ eng' = eng /\ lastCall' = "debounced"
            ELSE lastCall' = "returned" =>
                    /\ Cardinality(Spawned') = Cardinality(Spawned) + 1
                    /\ wk'[NextWorker].policy = "play"
                    /\ wk'[NextWorker].pc = "check"

C6_DebouncedPlayIsNoOp ==
    [][C6_PlayStep]_vars

C6_Witness ==
    /\ lastCall = "debounced"
    /\ eng[1].last_played_object = "o1"
    /\ now - eng[1].last_played_time = 50
    /\ Cardinality(Spawned) = 1
    /\ eng[1].sound_generation = 1

\* C7: at any moment at most one thread is executing a native entry point
\* (initialize, cleanup, set_reverb_settings, process_sound, apply_reverb,
\* free_output_sound), the workers of different engines included.
C7_OneThreadInNative ==
    Cardinality(inNative) <= 1

C7_Witness ==
    \E w1, w2 \in Workers :
        /\ wk[w1].engine = 1 /\ wk[w2].engine = 2
        /\ w1 \in inNative
        /\ wk[w2].pc \in {"wait", "free_wait"}
        /\ main.pc \in {"reverb_wait", "cleanup_wait"}

\* C8: for every native process_sound or apply_reverb call that returns success
\* with a non-null buffer, free_output_sound is invoked exactly once on that
\* buffer before the facade method returns (a worker's call field names the
\* facade method it is in).
C8_BufferFreedExactlyOnce ==
    \A w \in Workers, c \in Calls :
        /\ wk[w].frees[c] <= 1
        /\ (wk[w].alloc[c] /\ wk[w].call # c => wk[w].frees[c] = 1)

\* C9: play, play_queued and play_file never raise to the calling thread.
C9_CallsNeverRaise ==
    lastCall # "raised"

\* C10: when the spatialization of a request fails (process_sound returns None or
\* an empty buffer) its worker calls neither stop() nor feed(), under the three
\* policies alike.
C10_FailedSpatializationLeavesSink ==
    \A w \in Workers :
        wk[w].processed \in {"None", "empty"} =>
            /\ wk[w].stops = 0
            /\ wk[w].feeds = 0
            /\ wk[w].pc = "done"

C10_Witness ==
    \E w1, w2 \in Workers :
        /\ wk[w1].processed = "None" /\ wk[w2].processed = "empty"
        /\ wk[w1].policy # wk[w2].policy
        /\ wk[w1].pc = "done" /\ wk[w2].pc = "done"

\* C11: initialize on a facade that is already initialized returns True without
\* the native initialize routine, whatever sample rate and frame size are
\* passed, and leaves initialized, sample_rate and frame_size as they were; the
\* calling thread is on its way to the native initialize only while the facade
\* is not initialized.
C11_InitializeStep ==
    \A a \in InitializeArgs :
        (Initialize(a[1], a[2]) /\ sa.initialized) =>
            /\ sa'.ret = Returned("initialize", a[1], a[2], "True")
            /\ main' = MainIdle
            /\ inNative' = inNative
            /\ steam_audio_mutex' = steam_audio_mutex
            /\ sa'.initialized
            /\ sa'.sample_rate = sa.sample_rate
            /\ sa'.frame_size = sa.frame_size

C11_NativeInitializeOnlyUninitialized ==
    main.pc \in {"init_wait", "init_in"} => ~sa.initialized

C11_InitializeIsIdempotent ==
    [](C11_NativeInitializeOnlyUninitialized) /\ [][C11_InitializeStep]_vars

C11_Witness ==
    /\ sa.initialized
    /\ sa.ret = Returned("initialize", 22050, 512, "True")
    /\ sa.sample_rate = DefaultSampleRate
    /\ sa.frame_size = DefaultFrameSize
    /\ main = MainIdle

\* C12: while the facade is not initialized, set_reverb_settings returns False
\* and process_sound and apply_reverb return None, each without a native call
\* (the thread neither takes the mutex nor enters the library); a native
\* initialize that returns false leaves initialized false.
C12_UninitializedStep ==
    /\ (SetReverbSettings /\ ~sa.initialized) =>
            /\ sa'.ret = Returned("set_reverb_settings", 0, 0, "False")
            /\ main' = MainIdle
            /\ inNative' = inNative
            /\ steam_audio_mutex' = steam_audio_mutex
    /\ \A w \in Workers :
          (FacadeCheck(w) /\ ~sa.initialized) =>
            /\ inNative' = inNative
            /\ steam_audio_mutex' = steam_audio_mutex
            /\ wk'[w].alloc = wk[w].alloc
            /\ wk'[w].pc \notin {"wait", "in"}
            /\ (wk[w].call = "process_sound" =>
                    wk'[w].processed = "None" /\ wk'[w].pc = "done")
            /\ (wk[w].call = "apply_reverb" =>
                    wk'[w].reverb = "None" /\ wk'[w].final = "dry")
    /\ (InitializeReturn(FALSE) /\ ~sa.initialized) => ~sa'.initialized

C12_UninitializedCallsFail ==
    [][C12_UninitializedStep]_vars

C12_Witness ==
    /\ ~sa.initialized
    /\ sa.ret = Returned("set_reverb_settings", 0, 0, "False")
    /\ \E w1, w2 \in Workers :
          /\ wk[w1].processed = "None" /\ wk[w1].pc = "done"
          /\ wk[w2].processed = "bytes" /\ wk[w2].reverb = "None"
          /\ wk[w2].alloc["apply_reverb"] = FALSE

\* C13: an engine's close() (its destructor calls close()) releases that
\* engine's sink and nothing else: it starts no native cleanup and leaves the
\* shared handle and the other engines as they were; the calling thread gets
\* to the native cleanup from an engine only through
\* close_and_cleanup_steam_audio.
C13_CloseStep ==
    /\ \A e \in Engines :
          Close(e) =>
            /\ sa' = sa
            /\ main' = MainIdle
            /\ inNative' = inNative
            /\ steam_audio_mutex' = steam_audio_mutex
            /\ eng'[e].state = "closed"
            /\ \A f \in Engines \ {e} : eng'[f] = eng[f]
    /\ (main.pc # "cleanup_wait" /\ main'.pc = "cleanup_wait") =>
            \E e \in Engines : CloseAndCleanup(e) /\ main'.e = e

C13_CloseLeavesSharedHandle ==
    [][C13_CloseStep]_vars

C13_Witness ==
    /\ eng[1].state = "closed"
    /\ eng[2].state = "open"
    /\ sa.initialized
    /\ ~sa.cleaned
    /\ main = MainIdle
    /\ \E w \in Workers : wk[w].engine = 2 /\ wk[w].feeds = 1

\* C14: for every desktop size with W, H > 0 and every bounding box, also one
\* whose centre lies outside the desktop, the angles of the request built by
\* _extract_sound_params are within -90 .. 90 degrees; the box (100, 200, 300,
\* 40) on a 1920x1080 desktop, centre (250, 220), is at ((250 - 960) / 1920) *
\* 180 = -66.5625 and 50 * ((1080 - 220) / 1080) - 40 = -0.185 degrees.
C14_AnglesWithinRange ==
    /\ \A w \in Spawned :
          /\ -90000 <= wk[w].angle_x /\ wk[w].angle_x <= 90000
          /\ -90000 <= wk[w].angle_y /\ wk[w].angle_y <= 90000
    /\ ( /\ Spawned = {1} /\ wk[1].policy = "play"
          /\ eng[1].audio3d
          /\ eng[1].last_played_object = "o1"
          /\ eng[1].cached_desktop_size = <<1920, 1080>> )
       => wk[1].angle_x \in -66563 .. -66562 /\ wk[1].angle_y \in -186 .. -185

C14_Witness ==
    /\ eng[1].audio3d
    /\ wk[1].policy = "play" /\ wk[1].angle_x = -90000 /\ wk[1].angle_y = 90000
    /\ wk[2].policy = "queued" /\ wk[2].angle_x = 90000 /\ wk[2].angle_y = -90000

\* A request built by play or play_queued in this step for an object that is
\* centred (None, without a location, or any object when audio3d is off) has
\* the angles (ax, ay), in thousandths of a degree.
CentredRequestHasAngles(ax, ay) ==
    \A obj \in ParamObjects \cup {None}, sound \in Sounds :
        ( /\ Play(1, obj, sound) \/ PlayQueued(1, obj, sound)
          /\ Cardinality(Spawned') = Cardinality(Spawned) + 1
          /\ \/ obj = None
             \/ obj = "noLocation"
             \/ ~eng[1].audio3d )
        => /\ wk'[NextWorker].angle_x = ax
           /\ wk'[NextWorker].angle_y = ay

\* C15 as stated: a request built for an object that is None or has no
\* location, or for any object when audio3d is disabled, has the angles
\* (0, 5.0), for every desktop size with W, H > 0.
C15_CentredIsZeroFive ==
    [][CentredRequestHasAngles(0, 5000)]_vars

\* C15 amended: such a request has the angles (0, -15.0), that is
\* (0, 50 * 0.5 - 40), for every desktop size with W, H > 0.
C15_CentredIsZeroMinusFifteen ==
    [][CentredRequestHasAngles(0, -15000)]_vars

C15_Witness ==
    /\ ~eng[1].audio3d
    /\ eng[1].cached_desktop_size = <<1366, 768>>
    /\ eng[1].last_played_object = "offTopLeft"
    /\ wk[1].policy = "play" /\ wk[1].angle_x = 0 /\ wk[1].angle_y = -15000
    /\ wk[2].policy = "queued" /\ wk[2].angle_x = 0 /\ wk[2].angle_y = -15000

\* C16: _compute_volume gives clamp(volume/100, 0, 1) when use_synth_volume is
\* off, and otherwise clamp(synthVolume/100, 0, 1), plus 0.25 when audio3d is
\* on, without a clamp after the boost: synthesizer volume 50 with 3D gives
\* 0.75, 100 with 3D gives 1.25, and the result is above 1.0 only with both
\* use_synth_volume and audio3d on. The requests carry the cached value.
C16_VolumeFormula ==
    LET e == eng[1]
        base == IF e.use_synth_volume THEN e.synth_volume ELSE e.volume
        clamped == IF base < 0 THEN 0 ELSE IF base > 100 THEN 100 ELSE base
    IN  /\ e.cached_volume =
              clamped + (IF e.use_synth_volume /\ e.audio3d THEN 25 ELSE 0)
        /\ (e.use_synth_volume /\ e.audio3d /\ e.synth_volume = 50
                => e.cached_volume = 75)
        /\ (e.use_synth_volume /\ e.audio3d /\ e.synth_volume = 100
                => e.cached_volume = 125)
        /\ (e.cached_volume > 100 => e.use_synth_volume /\ e.audio3d)
        /\ e.cached_volume >= 0
        /\ \A w \in Spawned :
              wk[w].policy \in {"play", "queued"} => wk[w].volume = e.cached_volume

C16_Witness ==
    /\ eng[1].use_synth_volume /\ eng[1].audio3d
    /\ eng[1].synth_volume = 120
    /\ eng[1].volume = -10
    /\ eng[1].cached_volume = 125
    /\ wk[1].policy = "play" /\ wk[1].volume = 125

\* C17: play_file follows the interrupt protocol of play on the same
\* generation counter: it increments the generation and captures it, so it
\* supersedes every in-flight play / play_file worker and is superseded by any
\* later one; its worker spatializes at (0, 0) and gets to stop() and to feed()
\* only through a generation check that found its generation current, before
\* stop() and again inside the sink lock.
C17_PlayFileStep ==
    \A file \in FileReads \ {None} :
        PlayFile(1, file) =>
            /\ eng'[1].sound_generation = eng[1].sound_generation + 1
            /\ wk'[NextWorker].policy = "file"
            /\ wk'[NextWorker].generation = eng'[1].sound_generation
            /\ wk'[NextWorker].angle_x = 0 /\ wk'[NextWorker].angle_y = 0
            /\ \A w \in Spawned :
                  Interrupt(w) => wk[w].generation # eng'[1].sound_generation

C17_FileWorkerStep ==
    \A w \in Workers :
        wk[w].policy = "file" =>
            /\ (wk'[w].pc = "stop" /\ wk[w].pc # "stop" =>
                    /\ wk[w].pc = "gen_check"
                    /\ wk[w].generation = eng[1].sound_generation)
            /\ (wk'[w].pc = "feed" /\ wk[w].pc # "feed" =>
                    /\ wk[w].pc = "recheck"
                    /\ eng[1].wave_player_lock = w
                    /\ wk[w].stops = 1
                    /\ wk[w].generation = eng[1].sound_generation)
            /\ (wk'[w].feeds # wk[w].feeds => wk[w].pc = "feed")
            /\ (eng'[1].sound_generation # eng[1].sound_generation =>
                    wk[w].generation # eng'[1].sound_generation)

C17_Generations ==
    \A w \in Spawned :
        Interrupt(w) =>
            /\ wk[w].generation >= 1
            /\ wk[w].generation <= eng[1].sound_generation
            /\ \A v \in Spawned \ {w} :
                  Interrupt(v) => wk[v].generation # wk[w].generation

C17_PlayFileInterrupts ==
    /\ [](C17_Generations)
    /\ [][C17_PlayFileStep /\ C17_FileWorkerStep]_vars

C17_Witness ==
    /\ wk[1].policy = "file" /\ wk[1].pc = "done"
    /\ wk[1].processed = "bytes" /\ wk[1].stops = 1 /\ wk[1].feeds = 0
    /\ wk[2].policy = "file" /\ wk[2].pc = "done" /\ wk[2].feeds = 1
    /\ wk[2].angle_x = 0 /\ wk[2].angle_y = 0

\* C18: a native call or a device write that never returns stalls only the
\* worker that issued it: no other worker is left at a lock the stalled thread
\* holds, and the calling thread's play, play_queued and play_file take no lock.
C18_HangStallsOnlyItsThread ==
    \A h \in Hung : \A w \in Workers \ {h} : ~WaitsFor(w, h)

\* C19: in the interrupt policy stop() and feed() form one step under the sink
\* lock: the worker holds _wave_player_lock when it calls stop(), and at its
\* feed() the sink holds nothing another worker fed since that stop().
C19_StopFeedStep ==
    \A w \in Workers :
        /\ (Stop(w) => eng[wk[w].engine].wave_player_lock = w)
        /\ (Feed(w) /\ Interrupt(w) => eng[wk[w].engine].pending = <<>>)

C19_StopAndFeedUnderLock ==
    [][C19_StopFeedStep]_vars

\* C20: at any moment at most one thread is inside a device-facing call
\* (wave_player.stop, feed or close) of an engine's sink.
C20_OneThreadInDevice ==
    \A e \in Engines : Cardinality(InDevice(e)) <= 1

\* C21: the generation counter never decreases: it goes up by exactly 1 on
\* every play_file call that decodes its file and on every play call that
\* passes the null-sound check, the debounce and the parameter extraction, and
\* stays on every other step (play_queued, the other play calls, the workers);
\* hence no two interrupt-policy workers hold the same generation.
C21_GenerationStep ==
    LET g == eng[1].sound_generation
        extracts == eng[1].cached_desktop_size[1] # 0 /\ eng[1].cached_desktop_size[2] # 0
    IN  /\ eng'[1].sound_generation \in {g, g + 1}
        /\ \A file \in FileReads :
              PlayFile(1, file) =>
                  eng'[1].sound_generation = g + (IF file # None THEN 1 ELSE 0)
        /\ \A obj \in ObjectsOrNone, sound \in SoundsOrNone :
              /\ Play(1, obj, sound) =>
                    eng'[1].sound_generation =
                        g + (IF /\ sound # None
                                /\ ~(/\ now - eng[1].last_played_time < DebounceMs
                                     /\ obj = eng[1].last_played_object)
                                /\ extracts
                             THEN 1 ELSE 0)
              /\ PlayQueued(1, obj, sound) => eng'[1].sound_generation = g
        /\ (\E w \in Workers : WorkerStep(w, NativeOutcomes, ConfReads))
              => eng'[1].sound_generation = g
        /\ (eng'[1].sound_generation = g + 1 =>
              /\ Cardinality(Spawned') = Cardinality(Spawned) + 1
              /\ wk'[NextWorker].generation = g + 1)

C21_DistinctGenerations ==
    \A w, v \in Spawned :
        (Interrupt(w) /\ Interrupt(v) /\ wk[w].generation = wk[v].generation) => w = v

C21_GenerationMonotonic ==
    [](C21_DistinctGenerations) /\ [][C21_GenerationStep]_vars

C21_Witness ==
    /\ eng[1].sound_generation = 2
    /\ wk[1].policy = "play" /\ wk[1].generation = 1
    /\ wk[2].policy = "file" /\ wk[2].generation = 2
    /\ lastCall = "debounced"
    /\ wk[1].pc = "done" /\ wk[1].feeds = 0 /\ wk[1].processed = "bytes"

\* C22: over the engines created and closed and every interleaving of their
\* constructors and teardown callers, native initialize and native cleanup are
\* paired: initialize is never invoked while the handle is initialized, and
\* cleanup is never invoked on a handle that a cleanup already released.
C22_InitializeCleanupPaired ==
    /\ (main.pc = "init_in" => ~sa.initialized)
    /\ (InNativeCleanup # {} => sa.initialized)

\* C23: no thread holds _steam_audio_mutex and a sink lock at the same time,
\* and no thread waits for one of them while it holds the other; in a worker
\* the sections under the mutex all come before the section under the sink
\* lock.
C23_LocksNeverNested ==
    \A w \in Workers, e \in Engines :
        /\ ~(steam_audio_mutex = w /\ eng[e].wave_player_lock = w)
        /\ (wk[w].pc \in {"wait", "free_wait"} => eng[e].wave_player_lock # w)
        /\ (wk[w].pc = "lock" => steam_audio_mutex # w)
        /\ (eng[e].wave_player_lock = w =>
                /\ wk[w].engine = e
                /\ wk[w].pc \in {"recheck", "feed"}
                /\ wk[w].call = "none"
                /\ wk[w].processed = "bytes")
        /\ (steam_audio_mutex = w => wk[w].pc \in {"in", "free_in"} /\ wk[w].feeds = 0)
        /\ eng[e].wave_player_lock # Main

C23_Witness ==
    \E w1, w2 \in Workers :
        /\ w1 # w2
        /\ eng[1].wave_player_lock = w1 /\ wk[w1].pc = "feed"
        /\ steam_audio_mutex = w2 /\ wk[w2].call = "apply_reverb"

\* C24: _get_desktop_size returns a size refreshed no more than 5 seconds
\* before: if now - _desktop_cache_time > 5 it refreshes the cache (timestamp
\* now) before returning, otherwise it returns the cache unchanged; a refresh
\* that fails to read the desktop stores (1920, 1080) and still sets the
\* timestamp. play and play_queued read the size this way; play_file and the
\* passing of time do not touch the cache.
C24_GetDesktopSize ==
    \A read \in DesktopReads :
        LET e2 == GetDesktopSize(eng[1], read)
        IN  /\ now - e2.desktop_cache_time <= 5000
            /\ IF now - eng[1].desktop_cache_time > 5000
               THEN /\ e2.desktop_cache_time = now
                    /\ e2.cached_desktop_size =
                          IF read.raises THEN <<1920, 1080>> ELSE read.size
               ELSE e2 = eng[1]

C24_CallStep ==
    LET stale == now - eng[1].desktop_cache_time > 5000
        cache(e) == <<e.cached_desktop_size, e.desktop_cache_time>>
        read_ok == /\ now - eng'[1].desktop_cache_time <= 5000
                   /\ IF stale
                      THEN /\ eng'[1].desktop_cache_time = now
                           /\ \E read \in DesktopReads :
                                 eng'[1].cached_desktop_size =
                                   IF read.raises THEN <<1920, 1080>> ELSE read.size
                      ELSE cache(eng'[1]) = cache(eng[1])
    IN  /\ \A obj \in ObjectsOrNone, sound \in Sounds :
              /\ PlayQueued(1, obj, sound) => read_ok
              /\ (Play(1, obj, sound) /\ lastCall' # "debounced") => read_ok
              /\ (Play(1, obj, sound) /\ lastCall' = "debounced") =>
                    cache(eng'[1]) = cache(eng[1])
        /\ (\E file \in FileReads : PlayFile(1, file)) => cache(eng'[1]) = cache(eng[1])
        /\ (\E step \in LongTickSteps : Wait(step)) => cache(eng'[1]) = cache(eng[1])

C24_DesktopCacheFresh ==
    [](C24_GetDesktopSize) /\ [][C24_CallStep]_vars

C24_Witness ==
    /\ now = StartTime + 7500
    /\ eng[1].desktop_cache_time = now
    /\ eng[1].cached_desktop_size = <<1920, 1080>>
    /\ wk[1].policy = "queued" /\ wk[2].policy = "play"
    /\ lastCall = "returned"

\* C25: the engine re-reads the reverb settings on every playback: after the
\* configured settings change, the next playback that applies reverb runs
\* apply_reverb with the new values set in the library. (The settings change
\* only between playbacks here, so a worker inside apply_reverb belongs to a
\* playback that started after the last change.)
C25_ReverbSettingsCurrent ==
    \A w \in Workers :
        (wk[w].call = "apply_reverb" /\ wk[w].pc = "in") => sa.reverb = nvda.reverb

\* C29: with both reverb flags on, a failing apply_reverb (None, empty, or an
\* exception) does not drop the request: the worker goes on to the sink with
\* the spatialized audio, and feeds it unless a newer play superseded it; a
\* successful apply_reverb makes the reverbed audio the one fed; with either
\* flag off (or the flag unreadable) apply_reverb is not called.
C29_Requests == {w \in Workers : wk[w].policy \in {"play", "queued"}}

C29_ReverbFallback ==
    /\ \A w \in C29_Requests :
        /\ wk[w].reverb \in {"None", "empty", "raised"} =>
                /\ wk[w].final = "dry"
                /\ wk[w].pc = "done" =>
                        \/ wk[w].feeds = 1
                        \/ wk[w].policy = "play" /\ Superseded(w)
        /\ wk[w].reverb = "bytes" => wk[w].final = "wet"
        /\ (wk[w].call = "apply_reverb" \/ wk[w].reverb # "unset") =>
                eng[wk[w].engine].use_reverb /\ wk[w].conf = "on"
        /\ (~eng[wk[w].engine].use_reverb \/ wk[w].conf \in {"off", "raises"}) =>
                /\ wk[w].call # "apply_reverb"
                /\ wk[w].reverb = "unset"
                /\ ~wk[w].alloc["apply_reverb"]
                /\ wk[w].final \in {"none", "dry"}
    /\ \A e \in Engines : \A i \in 1..Len(eng[e].pending) :
            eng[e].pending[i].audio = wk[eng[e].pending[i].src].final

\* A queued request whose apply_reverb returned None fed the dry audio, and
\* one whose apply_reverb succeeded fed the reverbed audio after it.
C29_Witness ==
    /\ wk[1].policy = "queued" /\ wk[1].reverb = "None" /\ wk[1].conf = "on"
    /\ wk[2].policy = "queued" /\ wk[2].reverb = "bytes"
    /\ eng[1].pending = <<[src |-> 1, audio |-> "dry"], [src |-> 2, audio |-> "wet"]>>

\* C26: the volume of every request built by _extract_sound_params is the
\* engine's cached volume at that moment; the cached volume changes only in a
\* step of _update_volume_cache, which sets it to what _compute_volume gives;
\* a change of the synthesizer's volume or of the volume settings leaves the
\* cache, and so the volume of later requests, as it was.
C26_Step ==
    /\ \A w \in Workers :
            (wk[w].policy = "none" /\ wk'[w].policy \in {"play", "queued"}) =>
                wk'[w].volume = eng[1].cached_volume
    /\ eng'[1].cached_volume # eng[1].cached_volume => UpdateVolumeCache(1)
    /\ UpdateVolumeCache(1) =>
            eng'[1].cached_volume = ComputeVolume(eng[1], nvda.synth_volume)
    /\ (nvda' # nvda \/ eng'[1].volume # eng[1].volume
           \/ eng'[1].use_synth_volume # eng[1].use_synth_volume) =>
            eng'[1].cached_volume = eng[1].cached_volume

C26_VolumeFromCache ==
    [][C26_Step]_vars

\* The cache holds 1.25 (synthesizer at 100, 3D on); the synthesizer went
\* to 50 without a refresh, and the request built after that carries 1.25.
C26_Witness ==
    /\ eng[1].use_synth_volume /\ eng[1].audio3d
    /\ eng[1].cached_volume = 125
    /\ nvda.synth_volume = 50
    /\ wk[1].policy = "play" /\ wk[1].synth_then = 50 /\ wk[1].volume = 125

\* C27: no native processing entry point (process_sound, apply_reverb,
\* set_reverb_settings, free_output_sound) is invoked after the native cleanup
\* has run and before a new native initialize: no thread is inside one of
\* them while the library is cleaned up.
C27_NoNativeCallAfterCleanup ==
    (sa.cleaned /\ ~sa.initialized) =>
        /\ \A w \in Workers : wk[w].pc \notin {"in", "free_in"}
        /\ main.pc # "reverb_in"

\* C28: after an engine's close() has returned, no worker of that engine
\* calls stop() or feed() on the closed sink: no worker enters
\* wave_player.stop or wave_player.feed of an engine whose close() is over.
C28_SinkCallStep ==
    \A w \in Workers :
        (StopBegin(w) \/ FeedBegin(w)) => eng[wk[w].engine].state # "closed"

C28_NoSinkCallAfterClose ==
    [][C28_SinkCallStep]_vars

\* C30: a play call that is debounced or has a null sound changes no engine
\* state (generation, last-played object and time stay), so it supersedes no
\* in-flight sound and the 100 ms window runs from the last play that was not
\* debounced; play_queued and play_file never change the debounce state; a
\* play with a sound on another object than the last is never debounced.
C30_Step ==
    /\ \A obj \in ObjectsOrNone, sound \in SoundsOrNone :
          Play(1, obj, sound) =>
            IF sound = None
               \/ (obj = eng[1].last_played_object
                   /\ now - eng[1].last_played_time < DebounceMs)
            THEN /\ eng' = eng /\ wk' = wk
                 /\ \A w \in Spawned : Superseded(w)' = Superseded(w)
            ELSE /\ lastCall' # "debounced"
                 /\ eng'[1].last_played_object = obj
                 /\ eng'[1].last_played_time = now
    /\ ((\E obj \in ObjectsOrNone, sound \in SoundsOrNone : PlayQueued(1, obj, sound))
          \/ (\E file \in FileReads : PlayFile(1, file))) =>
            /\ eng'[1].last_played_object = eng[1].last_played_object
            /\ eng'[1].last_played_time = eng[1].last_played_time
    /\ eng'[1].last_played_time # eng[1].last_played_time =>
            /\ eng'[1].last_played_time = now
            /\ lastCall' \in {"returned", "raised"}

C30_DebounceState ==
    [][C30_Step]_vars

\* A play on o1 at the start, a play_queued after it, and 50 ms after the
\* play a second play on o1: debounced, the window still running from the
\* first play.
C30_Witness ==
    /\ lastCall = "debounced"
    /\ wk[1].policy = "play" /\ wk[2].policy = "queued"
    /\ eng[1].last_played_object = "o1"
    /\ eng[1].last_played_time = StartTime
    /\ now = StartTime + 50
    /\ eng[1].sound_generation = 1

\* C31: with every native and device call returning, under fair scheduling
\* every spawned worker terminates; and whenever no worker is running the
\* native mutex and the sink lock are free, also after the early return
\* inside the sink lock and after an exception in a worker.
C31_LocksFreeAtRest ==
    AllDone => /\ steam_audio_mutex = NoThread
               /\ inNative = {}
               /\ \A e \in Engines : eng[e].wave_player_lock = NoThread

C31_WorkersTerminate ==
    /\ []C31_LocksFreeAtRest
    /\ \A w \in Workers : (wk[w].policy # "none") ~> (wk[w].pc = "done")

\* Both workers are over: the first left through the early return inside the
\* sink lock (it stopped the sink, fed nothing, raised nothing and is
\* superseded), the second through an exception; both locks are free.
C31_Witness ==
    /\ wk[1].pc = "done" /\ wk[1].policy = "play"
    /\ wk[1].stops = 1 /\ wk[1].feeds = 0 /\ wk[1].result = "unset"
    /\ Superseded(1)
    /\ wk[2].pc = "done" /\ wk[2].result = "raised"
    /\ steam_audio_mutex = NoThread
    /\ eng[1].wave_player_lock = NoThread

\* C32: the speakTextInfo hook forwards every call to the original
\* speech.speakTextInfo exactly once, with the same arguments, and returns
\* its result: whether or not a sound was played, in and out of browse mode,
\* and when reading the object or playing its sound raises.
C32_HookForwardsOnce ==
    plugin.hook.called =>
        /\ plugin.hook.forwards = 1
        /\ plugin.hook.forwarded = <<plugin.hook.info, plugin.hook.args>>
        /\ plugin.hook.returned =
              OriginalSpeakTextInfo(plugin.hook.info, plugin.hook.args)

\* A call in browse mode whose read of the object raised, forwarded once.
C32_Witness ==
    /\ plugin.hook.called /\ plugin.hook.browse
    /\ plugin.hook.info = "broken"
    /\ now - plugin.last_focus_sound_time > FocusWindowMs
    /\ plugin.hook.forwards = 1

\* C33: in browse mode the hook plays a sound for the object at the caret
\* only when more than 0.2 s have passed since the last gainFocus event and
\* the object's identity differs from the last identity played in browse
\* mode (the remembered one); two consecutive browse-mode calls with the same
\* identity play at most one sound; a call outside browse mode resets the
\* remembered identity.
C33_HookStep ==
    \A info \in Infos, args \in SpeakArgs, focus \in FocusObjects :
        SpeakTextInfo(info, args, focus) =>
            /\ plugin'.hook.played =>
                    /\ focus = "browse"
                    /\ now - plugin.last_focus_sound_time > FocusWindowMs
                    /\ plugin'.hook.id # NoIdentity
                    /\ plugin'.hook.id # plugin.last_browse_object_id
                    /\ plugin'.hook.id # plugin.last_played_id
            /\ focus # "browse" => plugin'.last_browse_object_id = NoIdentity
            /\ (plugin.hook.called /\ plugin.hook.browse /\ focus = "browse"
                  /\ plugin'.hook.id = plugin.hook.id) =>
                    ~(plugin.hook.played /\ plugin'.hook.played)

=============================================================================
